---- MODULE Spec2Model ----
(***************************************************************************)
(* FSA validator (assignment_1/A.py, "lenient") and FSA to regular         *)
(* expression translator (assignment_2/A.py, "strict").                    *)
(*                                                                         *)
(* A run starts from the five token lists that parse_lines obtains by      *)
(* splitting the bracketed fields on ','.  Identifiers and symbols are     *)
(* strings; a transition item is the list of fields el.split('>') yields.  *)
(* A Python string built by Kleene() is modelled as the sequence of its    *)
(* lexical tokens: "(", ")", "*", "|", "eps", "{}" and symbol names.       *)
(***************************************************************************)
EXTENDS Naturals, Sequences, FiniteSets, TLC

VARIABLES
    variant,            \* "lenient" (assignment_1) or "strict" (assignment_2)
    states,             \* the states list
    alpha,              \* the alpha list
    init_st,            \* init.st (assignment_1) / initial (assignment_2)
    fin_st,             \* fin.st (assignment_1) / accepting (assignment_2)
    trans,              \* the trans list: each item the fields of el.split('>')
    pc,                 \* "start", "parsed", "built", "kleene", "done"
    graph,              \* self.__graph
    undirected_graph,   \* self.__undirected_graph
    calls,              \* validate() calls made on the instance so far
    builds,             \* create_graphs() calls made on the instance directly
    ret,                \* what the last call returned, or how the run ended
    R,                  \* Kleene(): the table being written
    R_prev,             \* Kleene(): the snapshot being read
    k, i, j             \* Kleene(): the loop counters

vars == <<variant, states, alpha, init_st, fin_st, trans, pc, graph,
          undirected_graph, calls, builds, ret, R, R_prev, k, i, j>>

inputVars == <<variant, states, alpha, init_st, fin_st, trans>>
kleeneVars == <<R, R_prev, k, i, j>>

--------------------------------------------------------------------------
(* Bounds *)

MaxTrans == 2       \* longest trans list of the validation runs
MaxCalls == 2       \* validate() calls made on one instance
MaxBuilds == 1      \* create_graphs() calls made directly on one instance
KMaxTrans == 3      \* longest trans list of the Kleene runs
MaxWordLen == 3     \* longest word the languages are compared on

--------------------------------------------------------------------------
(* Python helpers *)

Range(s) == {s[x] : x \in DOMAIN s}

\* `el in lst` for a list
In(el, lst) == \E x \in DOMAIN lst : lst[x] = el

\* the empty dict
EmptyDict == [x \in {} |-> <<>>]

\* d[key] = v
Put(d, key, v) == [x \in DOMAIN d \cup {key} |-> IF x = key THEN v ELSE d[x]]

\* the first element of lst that is not in the list `among`, or "" when none
RECURSIVE FirstNotIn(_, _, _)
FirstNotIn(lst, among, x) ==
    IF x > Len(lst) THEN ""
    ELSE IF ~In(lst[x], among) THEN lst[x]
    ELSE FirstNotIn(lst, among, x + 1)

\* the truth value of a str: only the empty string is falsy
Truthy(s) == s # ""

\* lst.count(el)
Count(lst, el) == Cardinality({x \in DOMAIN lst : lst[x] = el})

\* all lists over S of length 0..n
SeqsUpTo(S, n) == UNION {[1..m -> S] : m \in 0..n}

\* str.isalnum() (assignment_1) on the names used here: of these only '' and
\* '_' are not alphanumeric
str_isalnum(s) == s \notin {"", "_"}

\* isalnum(s) of assignment_2 on the names used here: the loop over the
\* characters finds none to reject in '', and rejects '_'
isalnum(s) == s # "_"

\* el.replace('_', '') on the names used here
StripUnderscore(s) == IF s = "_" THEN "" ELSE s

\* the result record of a call or of the run
NoRet == [kind |-> "none", error |-> "", completion |-> "",
          warnings |-> <<>>, regex |-> <<>>]

\* validate() of assignment_1 returned (error, completion, warnings)
Returned(error, completion, warnings) ==
    [kind |-> "returned", error |-> error, completion |-> completion,
     warnings |-> warnings, regex |-> <<>>]

\* an exception other than AssertionError left the call: main does not catch it
Fault(exc) == [NoRet EXCEPT !.kind = exc]

\* main caught AssertionError and reported the malformed input
Malformed(msg) == [NoRet EXCEPT !.kind = "malformed", !.error = msg]

--------------------------------------------------------------------------
(* parse_lines: the checks made on the token lists *)

parse_lines_ok ==
    /\ \A x \in DOMAIN states :
          IF variant = "lenient" THEN str_isalnum(states[x]) ELSE isalnum(states[x])
    /\ \A x \in DOMAIN alpha :
          IF variant = "lenient" THEN str_isalnum(StripUnderscore(alpha[x]))
          ELSE isalnum(StripUnderscore(alpha[x]))
    /\ states # <<>>
    /\ alpha # <<>>
    /\ (variant = "strict" => Len(init_st) <= 1)

MalformedMsg ==
    IF variant = "lenient" THEN "E5: Input file is malformed"
    ELSE "E1: Input file is malformed"

--------------------------------------------------------------------------
(* assignment_1: FSA_validator *)

\* create_graphs, the loop over the transition list t from item x on;
\* `fault` is set when the unpacking of el.split('>') raises ValueError
RECURSIVE create_graphs_trans(_, _, _, _)
create_graphs_trans(t, g, ug, x) ==
    IF x > Len(t) THEN [graph |-> g, undirected_graph |-> ug, fault |-> FALSE]
    ELSE IF Len(t[x]) # 3 THEN [graph |-> g, undirected_graph |-> ug, fault |-> TRUE]
    ELSE LET s1 == t[x][1]
             a  == t[x][2]
             s2 == t[x][3]
         IN IF ~In(s1, states) \/ ~In(s2, states)
            THEN create_graphs_trans(t, g, ug, x + 1)
            ELSE LET g1  == IF s1 \in DOMAIN g THEN g ELSE Put(g, s1, <<>>)
                     g2  == Put(g1, s1, Append(g1[s1], <<s2, a>>))
                     u1  == IF s1 \in DOMAIN ug THEN ug ELSE Put(ug, s1, <<>>)
                     u2  == Put(u1, s1, Append(u1[s1], <<s2, a>>))
                     u3  == IF s2 \in DOMAIN u2 THEN u2 ELSE Put(u2, s2, <<>>)
                     u4  == Put(u3, s2, Append(u3[s2], <<s1, a>>))
                 IN create_graphs_trans(t, g2, u4, x + 1)

\* create_graphs, the closing loop over self.__states
RECURSIVE create_graphs_states(_, _, _)
create_graphs_states(g, ug, x) ==
    IF x > Len(states) THEN [graph |-> g, undirected_graph |-> ug, fault |-> FALSE]
    ELSE LET el == states[x]
             g1 == IF el \in DOMAIN g THEN g ELSE Put(g, el, <<>>)
             u1 == IF el \in DOMAIN ug THEN ug ELSE Put(ug, el, <<>>)
         IN create_graphs_states(g1, u1, x + 1)

\* create_graphs on an instance whose transition list is t
create_graphs(t, g, ug) ==
    LET c == create_graphs_trans(t, g, ug, 1)
    IN IF c.fault THEN c
       ELSE create_graphs_states(c.graph, c.undirected_graph, 1)

\* check_E1 forgetting the accepting states
check_E1_initial_only == FirstNotIn(init_st, states, 1)

\* the first initial, then the first accepting state that is not in states
check_E1 == FirstNotIn(init_st \o fin_st, states, 1)

\* DFS(u, visited, undirected) on the adjacency dict g
RECURSIVE DFS(_, _, _), DFS_loop(_, _, _, _)
DFS(g, u, visited) == DFS_loop(g, u, 1, visited \cup {u})
DFS_loop(g, u, x, visited) ==
    IF x > Len(g[u]) THEN visited
    ELSE LET v == g[u][x]
         IN DFS_loop(g, u, x + 1,
                     IF v[1] \notin visited THEN DFS(g, v[1], visited)
                     ELSE visited)

check_E2(ug) == Cardinality(DFS(ug, states[1], {})) # Len(states)

\* the symbol of the first transition of t whose symbol is not in alpha, or ""
RECURSIVE check_E3_from(_, _)
check_E3_from(t, x) ==
    IF x > Len(t) THEN ""
    ELSE IF ~In(t[x][2], alpha) THEN t[x][2]
    ELSE check_E3_from(t, x + 1)

check_E3(t) == check_E3_from(t, 1)

check_E4 == Len(init_st) = 0

check_W1 == Len(fin_st) = 0

check_W2(g) == Cardinality(DFS(g, init_st[1], {})) # Len(states)

\* [x[1] for x in self.__graph[u]]
Symbols(g, u) == [x \in DOMAIN g[u] |-> g[u][x][2]]

check_W3(g) ==
    \E u \in DOMAIN g : \E x \in DOMAIN alpha : Count(Symbols(g, u), alpha[x]) > 1

\* the completeness test with <= for <
completion_le(g) ==
    IF \E u \in DOMAIN g : Cardinality(Range(Symbols(g, u))) <= Len(alpha)
    THEN "FSA is incomplete"
    ELSE "FSA is complete"

\* completion, the for / else loop of validate
completion(g) ==
    IF \E u \in DOMAIN g : Cardinality(Range(Symbols(g, u))) < Len(alpha)
    THEN "FSA is incomplete"
    ELSE "FSA is complete"

\* the warnings appended in the order W3, W1, W2
warnings_W3_first(g) ==
    (IF check_W3(g) THEN <<"W3: FSA is nondeterministic">> ELSE <<>>)
    \o (IF check_W1 THEN <<"W1: Accepting state is not defined">> ELSE <<>>)
    \o (IF check_W2(g)
        THEN <<"W2: Some states are not reachable from the initial state">>
        ELSE <<>>)

\* warnings, as validate appends them
warnings(g) ==
    (IF check_W1 THEN <<"W1: Accepting state is not defined">> ELSE <<>>)
    \o (IF check_W2(g)
        THEN <<"W2: Some states are not reachable from the initial state">>
        ELSE <<>>)
    \o (IF check_W3(g) THEN <<"W3: FSA is nondeterministic">> ELSE <<>>)

\* validate() testing E3 before E2
validate1_E3_first(t, g, ug) ==
    LET faulty_state == check_E1
    IN IF Truthy(faulty_state)
       THEN [graph |-> g, undirected_graph |-> ug,
             ret |-> Returned("E1: A state '" \o faulty_state
                              \o "' is not in the set of states", "", <<>>)]
       ELSE
       LET c == create_graphs(t, g, ug)
           out(r) == [graph |-> c.graph, undirected_graph |-> c.undirected_graph,
                      ret |-> r]
       IN IF c.fault THEN out(Fault("ValueError"))
          ELSE IF Truthy(check_E3(t))
          THEN out(Returned("E3: A transition '" \o check_E3(t)
                            \o "' is not represented in the alphabet", "", <<>>))
          ELSE IF check_E2(c.undirected_graph)
          THEN out(Returned("E2: Some states are disjoint", "", <<>>))
          ELSE IF check_E4
          THEN out(Returned("E4: Initial state is not defined", "", <<>>))
          ELSE IF init_st[1] \notin DOMAIN c.graph
          THEN out(Fault("KeyError"))
          ELSE out(Returned("", completion(c.graph), warnings(c.graph)))

\* validate() of assignment_1 on an instance whose transition list is t and
\* whose graphs are g and ug: the value returned (or the fault raised) and the
\* graphs the call leaves
validate1(t, g, ug) ==
    LET faulty_state == check_E1
    IN IF Truthy(faulty_state)
       THEN [graph |-> g, undirected_graph |-> ug,
             ret |-> Returned("E1: A state '" \o faulty_state
                              \o "' is not in the set of states", "", <<>>)]
       ELSE
       LET c == create_graphs(t, g, ug)
           out(r) == [graph |-> c.graph, undirected_graph |-> c.undirected_graph,
                      ret |-> r]
       IN IF c.fault THEN out(Fault("ValueError"))
          ELSE IF check_E2(c.undirected_graph)
          THEN out(Returned("E2: Some states are disjoint", "", <<>>))
          ELSE IF Truthy(check_E3(t))
          THEN out(Returned("E3: A transition '" \o check_E3(t)
                            \o "' is not represented in the alphabet", "", <<>>))
          ELSE IF check_E4
          THEN out(Returned("E4: Initial state is not defined", "", <<>>))
          ELSE IF init_st[1] \notin DOMAIN c.graph
          THEN out(Fault("KeyError"))
          ELSE out(Returned("", completion(c.graph), warnings(c.graph)))

--------------------------------------------------------------------------
(* assignment_2: FSA *)

\* self.__n
n == Len(states)

Ids == 0 .. (n - 1)

\* self.__state2id: a later duplicate of a name overwrites the earlier index
HasId(s) == In(s, states)
state2id(s) == (CHOOSE x \in DOMAIN states :
                    states[x] = s /\ \A y \in DOMAIN states : states[y] = s => y <= x) - 1

\* self.__id2state
id2state(v) == states[v + 1]

\* [[[] for _ in range(n)] for _ in range(n)]
EmptyMatrix == [u \in Ids |-> [v \in Ids |-> <<>>]]

\* __create_graphs, the loop over self.__trans from item x on; `fault` names
\* the exception that leaves the constructor, "" when none does
RECURSIVE create_graphs2(_, _, _)
create_graphs2(g, ug, x) ==
    IF x > Len(trans) THEN [graph |-> g, undirected_graph |-> ug, fault |-> ""]
    ELSE IF Len(trans[x]) # 3
    THEN [graph |-> g, undirected_graph |-> ug, fault |-> "ValueError"]
    ELSE LET s1 == trans[x][1]
             a  == trans[x][2]
             s2 == trans[x][3]
         IN IF ~HasId(s1) \/ ~HasId(s2)
            THEN [graph |-> g, undirected_graph |-> ug, fault |-> "KeyError"]
            ELSE LET u  == state2id(s1)
                     v  == state2id(s2)
                     g1 == [g EXCEPT ![u][v] = Append(@, a)]
                     u1 == [ug EXCEPT ![u][v] = Append(@, a)]
                     u2 == [u1 EXCEPT ![v][u] = Append(@, a)]
                 IN create_graphs2(g1, u2, x + 1)

check2_E2 == Len(init_st) = 0

check2_E3 == Len(fin_st) = 0

\* the endpoints s1, s2 of every transition, in the order __check_E4 tests them
RECURSIVE Endpoints(_)
Endpoints(x) ==
    IF x > Len(trans) THEN <<>>
    ELSE <<trans[x][1], trans[x][3]>> \o Endpoints(x + 1)

check2_E4 ==
    FirstNotIn(init_st \o fin_st \o Endpoints(1), states, 1)

check2_E5 == check_E3_from(trans, 1)

\* __DFS(g, u, visited) on the adjacency matrix g
RECURSIVE DFS2(_, _, _), DFS2_loop(_, _, _, _)
DFS2(g, u, visited) == DFS2_loop(g, u, 0, visited \cup {u})
DFS2_loop(g, u, v, visited) ==
    IF v >= n THEN visited
    ELSE DFS2_loop(g, u, v + 1,
                   IF id2state(v) \notin visited /\ g[state2id(u)][v] # <<>>
                   THEN DFS2(g, id2state(v), visited)
                   ELSE visited)

check2_E6(ug) == Cardinality(DFS2(ug, init_st[1], {})) # Len(states)

\* lst of __check_E7: the symbols on the edges leaving u
RECURSIVE OutSymbols(_, _, _)
OutSymbols(g, u, v) ==
    IF v >= n THEN <<>> ELSE g[u][v] \o OutSymbols(g, u, v + 1)

check2_E7(g) ==
    \E u \in Ids : \E x \in DOMAIN alpha : Count(OutSymbols(g, u, 0), alpha[x]) > 1

\* validate() of assignment_2 on an instance whose graphs are g and ug
validate2(g, ug) ==
    IF check2_E2 THEN Returned("E2: Initial state is not defined", "", <<>>)
    ELSE IF check2_E3 THEN Returned("E3: Set of accepting states is empty", "", <<>>)
    ELSE IF Truthy(check2_E4)
    THEN Returned("E4: A state '" \o check2_E4 \o "' is not in the set of states",
                  "", <<>>)
    ELSE IF Truthy(check2_E5)
    THEN Returned("E5: A transition '" \o check2_E5
                  \o "' is not represented in the alphabet", "", <<>>)
    ELSE IF ~HasId(init_st[1]) THEN Fault("KeyError")
    ELSE IF check2_E6(ug) THEN Returned("E6: Some states are disjoint", "", <<>>)
    ELSE IF check2_E7(g) THEN Returned("E7: FSA is nondeterministic", "", <<>>)
    ELSE Returned("", "", <<>>)

--------------------------------------------------------------------------
(* assignment_2: Kleene() *)

\* the order of Python's str comparison on the symbols used here
SymRank(s) ==
    CASE s = "" -> 0
      [] s = "a" -> 1
      [] s = "b" -> 2
      [] s = "c" -> 3
      [] s = "eps" -> 4

\* sorted(lst)
RECURSIVE Insert(_, _), sorted(_)
Insert(lst, el) ==
    IF lst = <<>> THEN <<el>>
    ELSE IF SymRank(el) < SymRank(Head(lst)) THEN <<el>> \o lst
    ELSE <<Head(lst)>> \o Insert(Tail(lst), el)
sorted(lst) == IF lst = <<>> THEN <<>> ELSE Insert(sorted(Tail(lst)), Head(lst))

\* the tokens of a symbol's name: the empty name contributes no character
Tok(sym) == IF sym = "" THEN <<>> ELSE <<sym>>

\* '|'.join(lst) for a list of symbol names
RECURSIVE JoinSyms(_)
JoinSyms(lst) ==
    IF lst = <<>> THEN <<>>
    ELSE IF Len(lst) = 1 THEN Tok(lst[1])
    ELSE Tok(lst[1]) \o <<"|">> \o JoinSyms(Tail(lst))

\* the initial entry R[u][v]
InitialEntry(g, u, v) ==
    IF g[u][v] # <<>>
    THEN JoinSyms(sorted(g[u][v])) \o (IF u = v THEN <<"|", "eps">> ELSE <<>>)
    ELSE IF u = v THEN <<"eps">> ELSE <<"{}">>

InitialTable(g) == [u \in Ids |-> [v \in Ids |-> InitialEntry(g, u, v)]]

\* f"({a})({b})*({c})|({d})"
Format(a, b, c, d) ==
    <<"(">> \o a \o <<")", "(">> \o b \o <<")", "*", "(">> \o c
    \o <<")", "|", "(">> \o d \o <<")">>

\* the value assigned to R[u][v] in round r, read from the table T
Update(T, r, u, v) == Format(T[u][r], T[r][r], T[r][v], T[u][v])

\* '|'.join(map(lambda x: f"({x})", regs))
RECURSIVE JoinRegs(_)
JoinRegs(regs) ==
    IF regs = <<>> THEN <<>>
    ELSE IF Len(regs) = 1 THEN <<"(">> \o regs[1] \o <<")">>
    ELSE <<"(">> \o regs[1] \o <<")", "|">> \o JoinRegs(Tail(regs))

\* regs: R[initial][f] for f in accepting
Regs(T) == [x \in DOMAIN fin_st |-> T[state2id(init_st[1])][state2id(fin_st[x])]]

RegexResult(toks) == [NoRet EXCEPT !.kind = "regex", !.regex = toks]

--------------------------------------------------------------------------
(* The inputs *)

Variants == {"lenient", "strict"}

StatesPool == {<<"A">>, <<"A", "B">>, <<"A", "A">>}

AlphaPool == {<<"a">>, <<"a", "b">>, <<"a", "a">>}

InitPool == {<<>>, <<"A">>, <<"B">>, <<"Z">>, <<"", "A">>, <<"A", "B">>}

FinPool == {<<>>, <<"A">>, <<"B">>, <<"Z">>, <<"A", "">>, <<"", "Z">>}

\* transition items: well formed ones, one with an undeclared endpoint, one
\* with an undeclared symbol, one with an empty symbol, one with a single '>'
TransItems ==
    {<<"A", "a", "A">>, <<"A", "a", "B">>, <<"B", "a", "A">>, <<"A", "b", "A">>,
     <<"B", "b", "B">>, <<"A", "a", "Z">>, <<"A", "c", "A">>, <<"A", "", "B">>,
     <<"A", "a">>}

\* inputs with an empty list, an empty state name or the symbol '_'
EdgeInputs ==
    [variant : Variants,
     states : {<<>>, <<"A", "">>},
     alpha : {<<"a">>},
     init_st : {<<"A">>},
     fin_st : {<<"A">>},
     trans : {<<>>, <<<<"A", "a">>>>}]
    \cup
    [variant : Variants,
     states : {<<"A">>},
     alpha : {<<>>, <<"a", "_">>},
     init_st : {<<"A">>},
     fin_st : {<<"A">>},
     trans : {<<>>, <<<<"A", "a">>>>}]

Inputs ==
    [variant : Variants, states : StatesPool, alpha : AlphaPool,
     init_st : InitPool, fin_st : FinPool, trans : SeqsUpTo(TransItems, MaxTrans)]
    \cup EdgeInputs

--------------------------------------------------------------------------
(* The runs *)

InitWith(inp) ==
    /\ variant = inp.variant
    /\ states = inp.states
    /\ alpha = inp.alpha
    /\ init_st = inp.init_st
    /\ fin_st = inp.fin_st
    /\ trans = inp.trans
    /\ pc = "start"
    /\ graph = EmptyDict
    /\ undirected_graph = EmptyDict
    /\ calls = 0
    /\ builds = 0
    /\ ret = NoRet
    /\ R = <<>>
    /\ R_prev = <<>>
    /\ k = 0
    /\ i = 0
    /\ j = 0

Init == \E inp \in Inputs : InitWith(inp)

\* main: parse_lines inside try / except AssertionError
Parse ==
    /\ pc = "start"
    /\ IF parse_lines_ok
       THEN pc' = "parsed" /\ ret' = ret
       ELSE pc' = "done" /\ ret' = Malformed(MalformedMsg)
    /\ UNCHANGED <<inputVars, graph, undirected_graph, calls, builds, kleeneVars>>

\* FSA_validator.__init__
New1 ==
    /\ pc = "parsed"
    /\ variant = "lenient"
    /\ pc' = "built"
    /\ graph' = EmptyDict
    /\ undirected_graph' = EmptyDict
    /\ UNCHANGED <<inputVars, calls, builds, ret, kleeneVars>>

\* FSA_validator.validate
Validate1 ==
    /\ pc = "built"
    /\ variant = "lenient"
    /\ calls < MaxCalls
    /\ LET v == validate1(trans, graph, undirected_graph)
       IN /\ graph' = v.graph
          /\ undirected_graph' = v.undirected_graph
          /\ ret' = v.ret
          /\ pc' = IF v.ret.kind = "returned" THEN "built" ELSE "done"
    /\ calls' = calls + 1
    /\ UNCHANGED <<inputVars, builds, kleeneVars>>

\* FSA_validator.create_graphs called on the instance: it returns None, or
\* the ValueError of a malformed item leaves it
CreateGraphs1 ==
    /\ pc = "built"
    /\ variant = "lenient"
    /\ builds < MaxBuilds
    /\ LET c == create_graphs(trans, graph, undirected_graph)
       IN /\ graph' = c.graph
          /\ undirected_graph' = c.undirected_graph
          /\ IF c.fault
             THEN pc' = "done" /\ ret' = Fault("ValueError")
             ELSE pc' = "built" /\ ret' = ret
    /\ builds' = builds + 1
    /\ UNCHANGED <<inputVars, calls, kleeneVars>>

\* FSA.__init__
New2 ==
    /\ pc = "parsed"
    /\ variant = "strict"
    /\ LET c == create_graphs2(EmptyMatrix, EmptyMatrix, 1)
       IN /\ graph' = c.graph
          /\ undirected_graph' = c.undirected_graph
          /\ IF c.fault = ""
             THEN pc' = "built" /\ ret' = ret
             ELSE pc' = "done" /\ ret' = Fault(c.fault)
    /\ UNCHANGED <<inputVars, calls, builds, kleeneVars>>

\* FSA.validate
Validate2 ==
    /\ pc = "built"
    /\ variant = "strict"
    /\ calls < MaxCalls
    /\ ret' = validate2(graph, undirected_graph)
    /\ pc' = IF ret'.kind = "returned" THEN "built" ELSE "done"
    /\ calls' = calls + 1
    /\ UNCHANGED <<inputVars, graph, undirected_graph, builds, kleeneVars>>

Next == Parse \/ New1 \/ Validate1 \/ CreateGraphs1 \/ New2 \/ Validate2

Spec == Init /\ [][Next]_vars

--------------------------------------------------------------------------
(* The runs of Kleene() *)

KStatesPool == {<<"A">>, <<"A", "B">>}

KAlphaPool == {<<"a">>, <<"a", "b">>, <<"a", "eps">>}

KInitPool == {<<>>, <<"A">>, <<"B">>}

KFinPool == {<<>>, <<"A">>, <<"B">>, <<"A", "B">>, <<"A", "">>}

KTransItems ==
    {<<"A", "a", "A">>, <<"A", "a", "B">>, <<"A", "b", "B">>, <<"B", "a", "A">>,
     <<"B", "b", "B">>, <<"B", "b", "A">>, <<"A", "eps", "B">>, <<"B", "eps", "B">>}

KInputs ==
    [variant : {"strict"}, states : KStatesPool, alpha : KAlphaPool,
     init_st : KInitPool, fin_st : KFinPool,
     trans : SeqsUpTo(KTransItems, KMaxTrans)]

InitK == \E inp \in KInputs : InitWith(inp)

\* Kleene() building the initial sets before looking at validate()'s result
KleeneStart_table_first ==
    /\ pc = "built"
    /\ variant = "strict"
    /\ LET validation == validate2(graph, undirected_graph)
       IN /\ R' = InitialTable(graph)
          /\ R_prev' = InitialTable(graph)
          /\ k' = 0
          /\ i' = 0
          /\ j' = 0
          /\ IF validation.kind # "returned" \/ Truthy(validation.error)
             THEN pc' = "done" /\ ret' = validation
             ELSE pc' = "kleene" /\ ret' = ret
    /\ UNCHANGED <<inputVars, graph, undirected_graph, calls, builds>>

\* Kleene(), up to the deepcopy that precedes the rounds
KleeneStart ==
    /\ pc = "built"
    /\ variant = "strict"
    /\ LET validation == validate2(graph, undirected_graph)
       IN IF validation.kind # "returned"
          THEN pc' = "done" /\ ret' = validation /\ UNCHANGED kleeneVars
          ELSE IF Truthy(validation.error)
          THEN pc' = "done" /\ ret' = validation /\ UNCHANGED kleeneVars
          ELSE /\ pc' = "kleene"
               /\ ret' = ret
               /\ R' = InitialTable(graph)
               /\ R_prev' = InitialTable(graph)
               /\ k' = 0
               /\ i' = 0
               /\ j' = 0
    /\ UNCHANGED <<inputVars, graph, undirected_graph, calls, builds>>

\* the assignment to R[i][j] reading the table being written
KleeneCell_in_place ==
    /\ pc = "kleene"
    /\ k < n
    /\ i < n
    /\ R' = [R EXCEPT ![i][j] = Update(R, k, i, j)]
    /\ IF j + 1 < n THEN j' = j + 1 /\ i' = i ELSE j' = 0 /\ i' = i + 1
    /\ UNCHANGED <<inputVars, pc, graph, undirected_graph, calls, builds, ret, R_prev, k>>

\* Kleene(), the assignment to R[i][j] in round k
KleeneCell ==
    /\ pc = "kleene"
    /\ k < n
    /\ i < n
    /\ R' = [R EXCEPT ![i][j] = Update(R_prev, k, i, j)]
    /\ IF j + 1 < n THEN j' = j + 1 /\ i' = i ELSE j' = 0 /\ i' = i + 1
    /\ UNCHANGED <<inputVars, pc, graph, undirected_graph, calls, builds, ret, R_prev, k>>

\* Kleene(), R_prev = deepcopy(R) at the end of round k
KleeneRoundEnd ==
    /\ pc = "kleene"
    /\ k < n
    /\ i = n
    /\ R_prev' = R
    /\ k' = k + 1
    /\ i' = 0
    /\ j' = 0
    /\ UNCHANGED <<inputVars, pc, graph, undirected_graph, calls, builds, ret, R>>

\* Kleene(), the expression joined from the accepting states' entries
KleeneFinish ==
    /\ pc = "kleene"
    /\ k = n
    /\ pc' = "done"
    /\ ret' = IF \A x \in DOMAIN fin_st : HasId(fin_st[x])
              THEN RegexResult(JoinRegs(Regs(R)))
              ELSE Fault("KeyError")
    /\ UNCHANGED <<inputVars, graph, undirected_graph, calls, builds, kleeneVars>>

NextK == Parse \/ New2 \/ KleeneStart \/ KleeneCell \/ KleeneRoundEnd \/ KleeneFinish

SpecK == InitK /\ [][NextK]_vars

--------------------------------------------------------------------------
(* The vocabulary of the properties *)

Declared(s) == s \in Range(states)

\* every item of t has the three fields source, symbol, destination
WellFormed(t) == \A x \in DOMAIN t : Len(t[x]) = 3

\* the transitions of t between declared states
Kept(t) == {x \in DOMAIN t : Len(t[x]) = 3 /\ Declared(t[x][1]) /\ Declared(t[x][3])}

\* the initial states followed by the accepting states
Designated == init_st \o fin_st

HasUndeclared == \E x \in DOMAIN Designated : ~Declared(Designated[x])

\* the first initial or accepting state that is not declared
FirstUndeclared ==
    Designated[CHOOSE x \in DOMAIN Designated :
                 /\ ~Declared(Designated[x])
                 /\ \A y \in DOMAIN Designated : ~Declared(Designated[y]) => x <= y]

UndefinedStateMsg(s) ==
    (IF variant = "lenient" THEN "E1" ELSE "E4")
    \o ": A state '" \o s \o "' is not in the set of states"

DisjointMsg ==
    IF variant = "lenient" THEN "E2: Some states are disjoint"
    ELSE "E6: Some states are disjoint"

\* the declared states joined to a state of S by transitions of t, taken in
\* either direction
RECURSIVE Component(_, _)
Component(t, S) ==
    LET N == S \cup {t[x][3] : x \in {y \in Kept(t) : t[y][1] \in S}}
               \cup {t[x][1] : x \in {y \in Kept(t) : t[y][3] \in S}}
    IN IF N = S THEN S ELSE Component(t, N)

MoreThanOneComponent(t) ==
    \E s \in Range(states) : Component(t, {s}) # Range(states)

SymbolsDeclared(t) == \A x \in DOMAIN t : Len(t[x]) = 3 => t[x][2] \in Range(alpha)

\* validate() has been called on the instance and has returned
ValidateReturned == calls >= 1 /\ ret.kind = "returned"

\* the run is over: a call has been made on the instance, or the run never
\* got that far
RunEnded == pc = "done" \/ calls >= 1

\* t without its item r
RemoveAt(t, r) == SubSeq(t, 1, r - 1) \o SubSeq(t, r + 1, Len(t))

\* every declared state has a transition of t for every alphabet symbol
EveryStateEverySymbol(t) ==
    \A s \in Range(states) : \A a \in Range(alpha) :
        \E x \in Kept(t) : t[x][1] = s /\ t[x][2] = a

\* item r of t is a kept transition, the only one leaving its source with
\* its symbol
OnlyCarrier(t, r) ==
    /\ r \in Kept(t)
    /\ \A x \in Kept(t) : (t[x][1] = t[r][1] /\ t[x][2] = t[r][2]) => x = r

NoRepeats(lst) == \A x, y \in DOMAIN lst : lst[x] = lst[y] => x = y

\* some state has two kept transitions of t with the same symbol
TwoWithSameSymbol(t) ==
    \E x, y \in Kept(t) : x # y /\ t[x][1] = t[y][1] /\ t[x][2] = t[y][2]

\* the words of length at most MaxWordLen
WordsOver(S) == SeqsUpTo(S, MaxWordLen)

\* concatenation and iteration of languages, cut at MaxWordLen
Cat(L1, L2) ==
    {w \in {w1 \o w2 : w1 \in L1, w2 \in L2} : Len(w) <= MaxWordLen}

RECURSIVE StarFrom(_, _)
StarFrom(L, S) ==
    LET N == S \cup Cat(S, L) IN IF N = S THEN S ELSE StarFrom(L, N)

Star(L) == StarFrom(L, {<<>>})

\* The language of an expression e given as tokens, read from position p:
\* alternation of concatenations of atoms, an atom optionally starred;
\* "eps" is the empty string, "{}" the empty language, an empty alternative
\* the empty string, any other token a symbol.
RECURSIVE LangExpr(_, _), LangExprRest(_, _, _), LangTermRest(_, _, _),
          LangFactor(_, _)
LangExpr(e, p) ==
    LET t == LangTermRest(e, p, {<<>>}) IN LangExprRest(e, t.pos, t.lang)
LangExprRest(e, p, acc) ==
    IF p <= Len(e) /\ e[p] = "|"
    THEN LET t == LangTermRest(e, p + 1, {<<>>})
         IN LangExprRest(e, t.pos, acc \cup t.lang)
    ELSE [lang |-> acc, pos |-> p]
LangTermRest(e, p, acc) ==
    IF p > Len(e) \/ e[p] \in {"|", ")"} THEN [lang |-> acc, pos |-> p]
    ELSE LET f == LangFactor(e, p) IN LangTermRest(e, f.pos, Cat(acc, f.lang))
LangFactor(e, p) ==
    LET atom == IF e[p] = "(" THEN LET x == LangExpr(e, p + 1)
                                   IN [lang |-> x.lang, pos |-> x.pos + 1]
                ELSE IF e[p] = "eps" THEN [lang |-> {<<>>}, pos |-> p + 1]
                ELSE IF e[p] = "{}" THEN [lang |-> {}, pos |-> p + 1]
                ELSE [lang |-> {<<e[p]>>}, pos |-> p + 1]
    IN IF atom.pos <= Len(e) /\ e[atom.pos] = "*"
       THEN [lang |-> Star(atom.lang), pos |-> atom.pos + 1]
       ELSE atom

Lang(e) == LangExpr(e, 1).lang

\* the states the automaton can be in after reading w from its initial state
RECURSIVE After(_)
After(w) ==
    IF w = <<>> THEN {init_st[1]}
    ELSE LET S == After(SubSeq(w, 1, Len(w) - 1))
         IN {trans[x][3] : x \in {y \in DOMAIN trans :
                                     trans[y][1] \in S /\ trans[y][2] = w[Len(w)]}}

\* the words of length at most MaxWordLen that the automaton accepts
Accepted ==
    {w \in WordsOver(Range(alpha)) : After(w) \cap Range(fin_st) # {}}

\* the table after r rounds, each round computed from the whole table of
\* the round before: R(r+1)[u][v] = (R(r)[u][r])(R(r)[r][r])*(R(r)[r][v])|(R(r)[u][v])
ClosedForm(T, r, u, v) ==
    <<"(">> \o T[u][r] \o <<")", "(">> \o T[r][r] \o <<")", "*", "(">>
    \o T[r][v] \o <<")", "|", "(">> \o T[u][v] \o <<")">>

RECURSIVE RoundTable(_)
RoundTable(r) ==
    IF r = 0 THEN InitialTable(graph)
    ELSE LET T == RoundTable(r - 1)
         IN [u \in Ids |-> [v \in Ids |-> ClosedForm(T, r - 1, u, v)]]

\* cell (u, v) has been assigned in the round under way
Written(u, v) == u < i \/ (u = i /\ v < j)

W1 == "W1: Accepting state is not defined"
W2 == "W2: Some states are not reachable from the initial state"
W3 == "W3: FSA is nondeterministic"

--------------------------------------------------------------------------
(* Properties *)

\* C1: a second validate() call on the same instance returns what the first
\* returned and leaves both graphs as the first left them (both validators).
C1_ValidateTwiceSame ==
    [][(calls >= 1 /\ calls' = calls + 1 /\ ret'.kind = "returned")
        => (ret' = ret /\ graph' = graph /\ undirected_graph' = undirected_graph)]_vars

\* C2 as stated: in both validators, when an initial or accepting state is not
\* declared, validate() returns the undefined-state error naming such a state,
\* whatever else is wrong with the automaton (granted here: transition items
\* of three fields and no empty state name).
C2_UndefinedStateFirst ==
    (/\ calls >= 1
     /\ HasUndeclared
     /\ WellFormed(trans)
     /\ \A x \in DOMAIN Designated : Designated[x] # "")
    => /\ ret.kind = "returned"
       /\ \E x \in DOMAIN Designated :
            /\ ~Declared(Designated[x])
            /\ ret.error = UndefinedStateMsg(Designated[x])

\* C2 amended: when the first undeclared initial-or-accepting state is not
\* the empty string, every call of the lenient validate() returns E1 naming it
\* whatever else is wrong; every call of the strict validate() returns E4
\* naming it when the initial and the accepting list are both non-empty (E2
\* and E3 are decided before E4).
C2_UndefinedStateAmended ==
    [][(/\ calls' = calls + 1
        /\ HasUndeclared
        /\ FirstUndeclared # ""
        /\ (variant = "strict" => init_st # <<>> /\ fin_st # <<>>))
       => ret' = Returned(UndefinedStateMsg(FirstUndeclared), "", <<>>)]_vars

\* C2 witness: a lenient run whose states are also disjoint and whose
\* initial state is undeclared has returned E1
C2_Witness ==
    /\ variant = "lenient"
    /\ calls >= 1
    /\ HasUndeclared
    /\ WellFormed(trans) /\ MoreThanOneComponent(trans)
    /\ ret.error = UndefinedStateMsg(FirstUndeclared)

\* C3 as stated: when the undirected graph has more than one component and
\* all initial and accepting states are declared, validate() returns the
\* disjoint-states error; an undeclared symbol or an empty initial set never
\* wins over it.
C3_DisjointFirst ==
    (/\ calls >= 1
     /\ ~HasUndeclared
     /\ WellFormed(trans)
     /\ MoreThanOneComponent(trans))
    => ret = Returned(DisjointMsg, "", <<>>)

\* C3 amended: that holds of the lenient validator; the strict validator
\* returns the disjoint-states error E6 when moreover the initial and the
\* accepting list are non-empty and every transition symbol is in the
\* alphabet (E2, E3 and E5 are decided before E6).
C3_DisjointAmended ==
    (/\ calls >= 1
     /\ ~HasUndeclared
     /\ WellFormed(trans)
     /\ MoreThanOneComponent(trans)
     /\ (variant = "strict" =>
            init_st # <<>> /\ fin_st # <<>> /\ SymbolsDeclared(trans)))
    => ret = Returned(DisjointMsg, "", <<>>)

\* C3 witness: a lenient run with disjoint states, an undeclared symbol and no
\* initial state has returned E2
C3_Witness ==
    /\ variant = "lenient"
    /\ calls >= 1
    /\ WellFormed(trans) /\ MoreThanOneComponent(trans)
    /\ ~SymbolsDeclared(trans)
    /\ init_st = <<>>
    /\ ret.error = DisjointMsg

\* C4: when a transition item does not have exactly three fields, the run
\* ends with the malformed-input error: never with a validation error, never
\* with an uncaught fault.
C4_MalformedTransition ==
    (RunEnded /\ ~WellFormed(trans)) => ret.kind = "malformed"

\* C5: a strict automaton with declared, non-empty initial and accepting
\* lists and a transition endpoint that is not declared is built without
\* failure, and validate() returns E4 naming such an endpoint.
C5_UndeclaredEndpointIsE4 ==
    (/\ variant = "strict"
     /\ pc \in {"built", "done"}
     /\ ret.kind # "malformed"
     /\ init_st # <<>> /\ fin_st # <<>> /\ ~HasUndeclared
     /\ WellFormed(trans)
     /\ \E x \in DOMAIN trans : ~Declared(trans[x][1]) \/ ~Declared(trans[x][3]))
    => /\ pc = "built"
       /\ calls >= 1 =>
            \E x \in DOMAIN trans : \E e \in {trans[x][1], trans[x][3]} :
                ~Declared(e) /\ ret = Returned(UndefinedStateMsg(e), "", <<>>)

\* C6: the lenient validate() returns either one hard error with an empty
\* completeness value and no warnings, or no error with a completeness
\* classification and warnings in the order W1, W2, W3.
C6_ErrorOrClassification ==
    (variant = "lenient" /\ ValidateReturned)
    => \/ /\ ret.error # ""
          /\ ret.completion = ""
          /\ ret.warnings = <<>>
       \/ /\ ret.error = ""
          /\ ret.completion \in {"FSA is complete", "FSA is incomplete"}
          /\ ret.warnings \in
                {<<>>, <<W1>>, <<W2>>, <<W3>>, <<W1, W2>>, <<W1, W3>>,
                 <<W2, W3>>, <<W1, W2, W3>>}

\* C6 witness: a lenient call has returned no error and all three warnings
C6_Witness ==
    /\ variant = "lenient"
    /\ ValidateReturned
    /\ ret.error = ""
    /\ ret.warnings = <<W1, W2, W3>>

\* C7 as stated: a lenient automaton that passes the hard checks and in which
\* every state has a transition for every alphabet symbol is classified
\* complete, and without any one of its transitions it is classified
\* incomplete.
C7_CompleteThenIncomplete ==
    (/\ variant = "lenient"
     /\ ValidateReturned
     /\ ret.error = ""
     /\ EveryStateEverySymbol(trans))
    => /\ ret.completion = "FSA is complete"
       /\ \A r \in DOMAIN trans :
            validate1(RemoveAt(trans, r), EmptyDict, EmptyDict).ret.completion
                = "FSA is incomplete"

\* C7 amended: such an automaton is classified complete when the alphabet
\* lists no symbol twice; and without a transition that was the only one
\* leaving its source with its symbol it is classified incomplete, when it
\* still passes the hard checks and no transition carries the empty symbol.
C7_CompleteAmended ==
    (/\ variant = "lenient"
     /\ ValidateReturned
     /\ ret.error = ""
     /\ EveryStateEverySymbol(trans))
    => /\ NoRepeats(alpha) => ret.completion = "FSA is complete"
       /\ \A r \in DOMAIN trans :
            LET less == validate1(RemoveAt(trans, r), EmptyDict, EmptyDict).ret
            IN (/\ OnlyCarrier(trans, r)
                /\ \A x \in DOMAIN trans : trans[x][2] # ""
                /\ less.kind = "returned" /\ less.error = "")
               => less.completion = "FSA is incomplete"

\* C7 witness: a complete lenient automaton with a transition whose removal
\* leaves an automaton that passes the hard checks and is incomplete
C7_Witness ==
    /\ variant = "lenient"
    /\ ValidateReturned
    /\ ret.error = ""
    /\ EveryStateEverySymbol(trans)
    /\ ret.completion = "FSA is complete"
    /\ \E r \in DOMAIN trans :
         LET less == validate1(RemoveAt(trans, r), EmptyDict, EmptyDict).ret
         IN /\ OnlyCarrier(trans, r)
            /\ less.error = ""
            /\ less.completion = "FSA is incomplete"

\* C8: an automaton that passes the earlier checks is reported
\* nondeterministic (W3, E7) exactly when some state has two or more outgoing
\* transitions with the same symbol (granted here: every transition symbol is
\* in the alphabet).
C8_NondeterminismExact ==
    /\ (variant = "lenient" /\ ValidateReturned /\ ret.error = ""
        /\ SymbolsDeclared(trans))
       => (In(W3, ret.warnings) <=> TwoWithSameSymbol(trans))
    /\ (variant = "strict" /\ ValidateReturned
        /\ ret.error \in {"", "E7: FSA is nondeterministic"}
        /\ SymbolsDeclared(trans))
       => (ret.error # "" <=> TwoWithSameSymbol(trans))

\* C9: the expression Kleene() returns denotes exactly the language the
\* automaton accepts from its initial state, "eps" read as the empty string
\* and "{}" as the empty language (compared on the words over the alphabet of
\* length at most MaxWordLen).
C9_RegexDenotesLanguage ==
    (pc = "done" /\ ret.kind = "regex") => Lang(ret.regex) = Accepted

\* C10: in every round k the cells already assigned hold the closed form of
\* the table as it stood at the end of round k-1, the others still hold that
\* table's entries, and R_prev is that table: no cell assigned in round k is
\* read in round k.
C10_RoundsReadSnapshot ==
    pc = "kleene" =>
        /\ R_prev = RoundTable(k)
        /\ \A u, v \in Ids :
             R[u][v] = IF k < n /\ Written(u, v)
                       THEN ClosedForm(RoundTable(k), k, u, v)
                       ELSE RoundTable(k)[u][v]

\* C10 witness: in round 1 of a two-state automaton cell [0][1], of column k,
\* has been overwritten and the cells of row 1 are being assigned
C10_Witness ==
    /\ pc = "kleene"
    /\ n = 2 /\ k = 1 /\ i = 1 /\ j = 1
    /\ R[0][1] # R_prev[0][1]
    /\ R[1][0] = ClosedForm(R_prev, 1, 1, 0)

\* C11: Kleene() returns a regular expression only when validate() returns no
\* error: a call of Kleene() on an automaton for which validate() returns an
\* error string ends at once with exactly that string, with no regex table
\* built and no expression returned, and a step that returns an expression is
\* taken only for an automaton for which validate() returns "".
C11_KleeneReturnsValidationError ==
    [][LET validation == validate2(graph, undirected_graph)
       IN /\ (pc = "built" /\ pc' # "built"
               /\ validation.kind = "returned" /\ validation.error # "")
              => /\ pc' = "done"
                 /\ ret' = Returned(validation.error, "", <<>>)
                 /\ R' = <<>> /\ R_prev' = <<>>
          /\ (pc' = "kleene" \/ ret'.kind = "regex")
              => validation = Returned("", "", <<>>)]_vars

\* C11 witness: Kleene() was called on a nondeterministic automaton with
\* declared states and symbols and has returned the E7 string, no table built
C11_Witness ==
    /\ pc = "done"
    /\ ret = Returned("E7: FSA is nondeterministic", "", <<>>)
    /\ TwoWithSameSymbol(trans)
    /\ R = <<>> /\ R_prev = <<>>

====
